---- MODULE Spec2Model ----
(***************************************************************************)
(* Graceful-shutdown coordinator of the keep-alive demo services.          *)
(*                                                                         *)
(* Two implementations of the coordinator live in the repository and both  *)
(* are modelled here, selected by `impl`:                                  *)
(*   "go"   - go-demo/main.go     (goroutines, channels, atomic cells)     *)
(*   "node" - the node service    (single-threaded event loop)             *)
(* The /sleep latency sampler is modelled for these two and for the        *)
(* java service ("java", DemoApplication.java).                            *)
(*                                                                         *)
(* Time is discrete, in milliseconds, and kept as countdowns (`timer`):    *)
(* -1 = not armed, 0 = due, >0 = pending.  Time advances only when no      *)
(* coordinator step is runnable (a runnable goroutine or a due callback is *)
(* served before another timer period elapses).                            *)
(***************************************************************************)
EXTENDS Integers, Sequences, FiniteSets, TLC

\* ------------------------------------------------------------------ bounds
MaxConns == 2
MaxSignals == 2
MaxCalls == 3
MaxPairs == 2

Conns == 1..MaxConns

\* ------------------------------------------------------- program constants
\* go-demo/main.go
shutdownSleepDuration == 10000
clientSideIdleTimeout == 15000
tickerInterval == 500
shutdownTimeout == 30000
\* node service
pollDelay == 500
DEFAULT_DRAIN_TIMEOUT == 5000
StatusOK == 200
StatusServiceUnavailable == 503
StatusBadRequest == 400
\* /sleep defaults, in milliseconds
GoDefaultLo == 50
GoDefaultHi == 1000
DEFAULT_MIN == 10
DEFAULT_MAX == 500
JavaDefaultMin == 50
JavaDefaultMax == 1000
JavaMaxSleep == 30000

\* --------------------------------------------------------------- variables
VARIABLES
  impl,               \* which service runs: "go", "node" (sampler only: "java")
  gracefulShutdown,   \* go: GRACEFUL_SHUTDOWN == "true"
  ENABLE_DRAIN,       \* node: ENABLE_DRAIN === 'true'
  DRAIN_TIMEOUT_ENV,  \* node: process.env.DRAIN_TIMEOUT as given ("unset": not given)
  DRAIN_TIMEOUT,      \* node: Number(env) || 5000
  alive,              \* the process exists (not exited, not crashed)
  panicked,           \* go: the process died of a panic
  listener,           \* "open" | "closed"
  conn,               \* connection -> "none","active","idle","hijacked","closed"
  pinned,             \* connections whose request never finishes and whose client never closes
  numConnections,     \* go: atomic.Int32 maintained by the ConnState hook
  sigsSent,           \* termination signals delivered to the process so far
  sigs,               \* go: buffered channel `sigs` (capacity 1), its length
  sigPc,              \* go: signal goroutine "recv" | "done"
  done,               \* go: buffered channel `done`, its length
  mainPc,             \* go: position of main / shutdown()
  shutdownInitiated,  \* go: atomic.Bool
  gracefulChan,       \* go: "nil" | "open" | "closed"
  shutdownTimerSt,    \* go: "unarmed" | "armed" | "fired"
  pollPc,             \* go: drain goroutine "none" | "select" | "close" | "returned"
  pollN,              \* go: the n the drain goroutine loaded last
  tickerC,            \* go: ticker.C (capacity 1), its length
  draining,           \* node: let draining
  loopSt,             \* node: drain loop -> "unused" | "waiting" | "ended" | "failed"
  loopDelay,          \* node: drain loop -> countdown of its delay(500)
  timer,              \* countdowns, see TimerNames
  lastReady,          \* the /ready response produced by the step just taken (status 0: none)
  opens, closes,      \* history: open / close events delivered to the tracker
  firstPoll,          \* history: the count read by the first poll (-1: none yet)
  sincePoll,          \* history: time has passed since the first poll with the listener open
  lastPoll,           \* history: the count read by the latest poll (-1: none yet)
  closedBy,           \* history: who ended the drain first: "none","poll","timer","direct"
  drainLoops,         \* history: drain loops started
  timersArmed,        \* history: deadline timers armed
  haltCalls,          \* history: times the listener was told to stop
  shutdownErr,        \* history: server.Shutdown returned ctx.Err()
  script,             \* response: the calls the handler makes on its ResponseWriter
  callPc,             \* response: index of the handler's next call
  subPc,              \* response: "call" | "delegate" (inside a decorated call)
  headerWritten,      \* response: connectionCloseWriter.headerWritten
  hdrConn,            \* response: values of the Connection header in the header map
  wroteHeader,        \* response: the underlying writer has committed the headers
  sentConn,           \* response: Connection: close values in the committed headers
  isReaderFrom,       \* response: the underlying writer implements io.ReaderFrom
  checkPhase,         \* history: the phase when the draining check ran ("none": not yet)
  commitPhase,        \* history: the phase when the headers were committed
  checks,             \* history: times the draining check ran for this response
  req,                \* /sleep: the query of the request (see Requests)
  resp                \* /sleep: what the handler has done with it (see NoSleep)

cfgVars   == <<impl, gracefulShutdown, ENABLE_DRAIN, DRAIN_TIMEOUT_ENV, DRAIN_TIMEOUT>>
procVars  == <<alive, panicked, listener>>
connVars  == <<conn, pinned, numConnections, opens, closes>>
sigVars   == <<sigsSent, sigs, sigPc, done>>
goVars    == <<mainPc, shutdownInitiated, gracefulChan, shutdownTimerSt, pollPc, pollN, tickerC>>
nodeVars  == <<draining, loopSt, loopDelay>>
histVars  == <<firstPoll, sincePoll, lastPoll, closedBy, drainLoops, timersArmed, haltCalls, shutdownErr>>
decVars   == <<script, callPc, subPc, headerWritten, hdrConn, wroteHeader, sentConn,
               isReaderFrom, checkPhase, commitPhase, checks>>
smpVars   == <<req, resp>>
vars == <<cfgVars, procVars, connVars, sigVars, goVars, nodeVars, timer, lastReady, histVars,
          decVars, smpVars>>

Loops == 1..MaxSignals
TimerNames == {"sleep", "deadline", "tick", "ctx"}

Min(S) == CHOOSE x \in S : \A y \in S : x <= y
Cap(n, m) == IF n > m THEN m ELSE n

\* No /ready response is produced by this step.
NoReady == [status |-> 0, close |-> FALSE, phase |-> "Running", afterSignal |-> FALSE]

Live == {c \in Conns : conn[c] \in {"active", "idle"}}
Idle == {c \in Conns : conn[c] = "idle"}

\* The Shutdown Phase of the spec, read off the program state.
Phase ==
  IF listener = "closed" THEN "Stopped"
  ELSE IF impl = "go" THEN (IF shutdownInitiated THEN "Draining" ELSE "Running")
  ELSE (IF draining THEN "Draining" ELSE "Running")

\* The coordinator has received a termination signal.
SignalReceived == IF impl = "go" THEN sigPc = "done" ELSE sigsSent > 0

\* node: the drain feature is on (gracefulShutdown's else branch is taken).
NodeDrainEnabled == ENABLE_DRAIN /\ DRAIN_TIMEOUT > 0
DrainEnabled == IF impl = "go" THEN gracefulShutdown ELSE NodeDrainEnabled

\* ------------------------------------------------------ connection tracker
\* Mutant of ConnState: the hook forgets hijacked connections.
ConnState_NoHijack(n, state) ==
  CASE state = "new" -> n + 1
    [] state = "closed" -> n - 1
    [] OTHER -> n

\* go: server.ConnState hook, the new value of numConnections.
ConnState(n, state) ==
  CASE state = "new" -> n + 1
    [] state \in {"closed", "hijacked"} -> n - 1
    [] OTHER -> n

\* The tracker as wired into the running service (node keeps no counter of
\* its own: it asks the server with getConnections).
Track(n, state) == IF impl = "go" THEN ConnState(n, state) ELSE n

RECURSIVE TrackClosed(_, _)
TrackClosed(n, k) == IF k = 0 THEN n ELSE TrackClosed(Track(n, "closed"), k - 1)

\* node: server.getConnections
getConnections == Cardinality(Live)

\* --------------------------------------------------------------- transport
\* The transport's connection lifecycle.  Each event is reported to the
\* tracker; `opens` / `closes` count the reported events by their kind.

\* A connection is accepted (StateNew) and starts serving its first request.
Accept(c) ==
  /\ alive /\ listener = "open" /\ conn[c] = "none"
  /\ \A d \in Conns : d < c => conn[d] # "none"
  /\ \E p \in (IF pinned = {} THEN BOOLEAN ELSE {FALSE}) :
       pinned' = IF p THEN pinned \cup {c} ELSE pinned
  /\ conn' = [conn EXCEPT ![c] = "active"]
  /\ numConnections' = Track(Track(numConnections, "new"), "active")
  /\ opens' = opens + 1
  /\ lastReady' = NoReady
  /\ UNCHANGED <<closes, cfgVars, smpVars, decVars, procVars, sigVars, goVars, nodeVars, timer, histVars>>

\* The response is written and the connection kept alive (StateIdle); once
\* the go server is shutting down keep-alives are off and it is closed.
ConnIdle(c) ==
  /\ alive /\ conn[c] = "active" /\ c \notin pinned
  /\ IF impl = "go" /\ listener = "closed"
       THEN /\ conn' = [conn EXCEPT ![c] = "closed"]
            /\ numConnections' = Track(numConnections, "closed")
            /\ closes' = closes + 1
       ELSE /\ conn' = [conn EXCEPT ![c] = "idle"]
            /\ numConnections' = Track(numConnections, "idle")
            /\ closes' = closes
  /\ lastReady' = NoReady
  /\ UNCHANGED <<pinned, opens, cfgVars, smpVars, decVars, procVars, sigVars, goVars, nodeVars, timer, histVars>>

\* The next request arrives on a kept-alive connection (StateActive).
ConnActive(c) ==
  /\ alive /\ conn[c] = "idle"
  /\ conn' = [conn EXCEPT ![c] = "active"]
  /\ numConnections' = Track(numConnections, "active")
  /\ lastReady' = NoReady
  /\ UNCHANGED <<pinned, opens, closes, cfgVars, smpVars, decVars, procVars, sigVars, goVars, nodeVars, timer, histVars>>

\* The client closes the connection, or it breaks (StateClosed).
ConnClose(c) ==
  /\ alive /\ c \in Live /\ c \notin pinned
  /\ conn' = [conn EXCEPT ![c] = "closed"]
  /\ numConnections' = Track(numConnections, "closed")
  /\ closes' = closes + 1
  /\ lastReady' = NoReady
  /\ UNCHANGED <<pinned, opens, cfgVars, smpVars, decVars, procVars, sigVars, goVars, nodeVars, timer, histVars>>

\* go: a handler takes the connection over (StateHijacked, terminal).
ConnHijack(c) ==
  /\ alive /\ impl = "go" /\ conn[c] = "active" /\ c \notin pinned
  /\ conn' = [conn EXCEPT ![c] = "hijacked"]
  /\ numConnections' = Track(numConnections, "hijacked")
  /\ closes' = closes + 1
  /\ lastReady' = NoReady
  /\ UNCHANGED <<pinned, opens, cfgVars, smpVars, decVars, procVars, sigVars, goVars, nodeVars, timer, histVars>>

\* --------------------------------------------------------------- readiness
\* Mutant of ready: the handler never looks at the flag.
ready_AlwaysHealthy == [status |-> StatusOK, close |-> FALSE]

\* go: ready(w)
ready ==
  IF shutdownInitiated
    THEN [status |-> StatusServiceUnavailable, close |-> TRUE]
    ELSE [status |-> StatusOK, close |-> FALSE]

\* node: respond(res, status, msg): the status and whether Connection: close is set
respond(status) == [status |-> status, close |-> ENABLE_DRAIN /\ draining]

\* GET /ready is handled on a connection that is serving a request.
Ready ==
  /\ alive /\ \E c \in Conns : conn[c] = "active"
  /\ LET r == IF impl = "go" THEN ready ELSE respond(StatusOK)
     IN lastReady' = [status |-> r.status, close |-> r.close,
                      phase |-> Phase, afterSignal |-> SignalReceived]
  /\ UNCHANGED <<cfgVars, smpVars, decVars, procVars, connVars, sigVars, goVars, nodeVars, timer, histVars>>

\* ---------------------------------------------------------- go coordinator
SetTimer(t, v) == timer' = [timer EXCEPT ![t] = v]

\* A termination signal reaches the process: signal.Notify sends it on `sigs`
\* without blocking, so it is dropped when the buffer is full.
GoSignal ==
  /\ alive /\ impl = "go" /\ sigsSent < MaxSignals
  /\ sigsSent' = sigsSent + 1
  /\ sigs' = IF sigs < 1 THEN sigs + 1 ELSE sigs
  /\ lastReady' = NoReady
  /\ UNCHANGED <<sigPc, done, cfgVars, smpVars, decVars, procVars, connVars, goVars, nodeVars, timer, histVars>>

\* main's signal goroutine: sig := <-sigs; done <- struct{}{}
GoSigGoroutineEnabled == alive /\ impl = "go" /\ sigPc = "recv" /\ sigs > 0
GoSigGoroutine ==
  /\ GoSigGoroutineEnabled
  /\ sigs' = sigs - 1
  /\ done' = done + 1
  /\ sigPc' = "done"
  /\ lastReady' = NoReady
  /\ UNCHANGED <<sigsSent, cfgVars, smpVars, decVars, procVars, connVars, goVars, nodeVars, timer, histVars>>

\* main: <-done; shutdown(server) begins with time.Sleep(shutdownSleepDuration)
GoMainDoneEnabled == alive /\ impl = "go" /\ mainPc = "waitDone" /\ done > 0
GoMainDone ==
  /\ GoMainDoneEnabled
  /\ done' = done - 1
  /\ mainPc' = "sleep"
  /\ SetTimer("sleep", shutdownSleepDuration)
  /\ lastReady' = NoReady
  /\ UNCHANGED <<sigsSent, sigs, sigPc, shutdownInitiated, gracefulChan, shutdownTimerSt, pollPc,
                 pollN, tickerC, cfgVars, smpVars, decVars, procVars, connVars, nodeVars, histVars>>

\* shutdown: the sleep is over; shutdownInitiated.Store(true)
GoStoreEnabled == alive /\ impl = "go" /\ mainPc = "sleep" /\ timer["sleep"] = 0
GoStore ==
  /\ GoStoreEnabled
  /\ shutdownInitiated' = TRUE
  /\ mainPc' = IF gracefulShutdown THEN "doGraceful" ELSE "shutdown"
  /\ SetTimer("sleep", -1)
  /\ lastReady' = NoReady
  /\ UNCHANGED <<gracefulChan, shutdownTimerSt, pollPc, pollN, tickerC,
                 cfgVars, smpVars, decVars, procVars, connVars, sigVars, nodeVars, histVars>>

\* doGracefulShutdown up to its wait: make the channel, arm the deadline
\* timer, start the drain goroutine with its ticker.
GoDoGracefulEnabled == alive /\ impl = "go" /\ mainPc = "doGraceful"
doGracefulShutdown ==
  /\ GoDoGracefulEnabled
  /\ gracefulChan' = "open"
  /\ shutdownTimerSt' = "armed"
  /\ pollPc' = "select"
  /\ timer' = [timer EXCEPT !["deadline"] = clientSideIdleTimeout, !["tick"] = tickerInterval]
  /\ mainPc' = "waitChan"
  /\ drainLoops' = Cap(drainLoops + 1, 2)
  /\ timersArmed' = Cap(timersArmed + 1, 2)
  /\ lastReady' = NoReady
  /\ UNCHANGED <<shutdownInitiated, pollN, tickerC, cfgVars, smpVars, decVars, procVars, connVars, sigVars,
                 nodeVars, firstPoll, sincePoll, lastPoll, closedBy, haltCalls, shutdownErr>>

\* close(gracefulChan) by `who`: closing a closed channel panics.
closeGracefulChan(who) ==
  IF gracefulChan = "closed"
    THEN /\ alive' = FALSE /\ panicked' = TRUE
         /\ UNCHANGED <<gracefulChan, closedBy>>
    ELSE /\ gracefulChan' = "closed" /\ closedBy' = who
         /\ UNCHANGED <<alive, panicked>>

\* The runtime delivers a tick on ticker.C (dropped when one is still unread).
GoTickerFireEnabled == alive /\ impl = "go" /\ pollPc \in {"select", "close"} /\ timer["tick"] = 0
GoTickerFire ==
  /\ GoTickerFireEnabled
  /\ tickerC' = 1
  /\ SetTimer("tick", tickerInterval)
  /\ lastReady' = NoReady
  /\ UNCHANGED <<mainPc, shutdownInitiated, gracefulChan, shutdownTimerSt, pollPc, pollN,
                 cfgVars, smpVars, decVars, procVars, connVars, sigVars, nodeVars, histVars>>

\* Mutant of PollEndsDrain: the test is inverted.
PollEndsDrain_Inverted(n) == n # 0

\* The drain goroutine's test of the count it loaded: the drain is over.
PollEndsDrain(n) == n = 0

\* drain goroutine, case <-ticker.C: n := numConnections.Load()
GoPollTickEnabled == alive /\ impl = "go" /\ pollPc = "select" /\ tickerC = 1
GoPollTick ==
  /\ GoPollTickEnabled
  /\ tickerC' = 0
  /\ pollN' = numConnections
  /\ pollPc' = IF PollEndsDrain(numConnections) THEN "close" ELSE "select"
  /\ firstPoll' = IF firstPoll = -1 THEN numConnections ELSE firstPoll
  /\ lastPoll' = numConnections
  /\ lastReady' = NoReady
  /\ UNCHANGED <<mainPc, shutdownInitiated, gracefulChan, shutdownTimerSt, timer, cfgVars, smpVars, decVars,
                 procVars, connVars, sigVars, nodeVars, sincePoll, closedBy,
                 drainLoops, timersArmed, haltCalls, shutdownErr>>

\* drain goroutine, after n == 0: close(gracefulChan); return (ticker.Stop)
GoPollCloseEnabled == alive /\ impl = "go" /\ pollPc = "close"
GoPollClose ==
  /\ GoPollCloseEnabled
  /\ closeGracefulChan("poll")
  /\ pollPc' = "returned"
  /\ SetTimer("tick", -1)
  /\ lastReady' = NoReady
  /\ UNCHANGED <<mainPc, shutdownInitiated, shutdownTimerSt, pollN, tickerC, listener, cfgVars, smpVars, decVars,
                 connVars, sigVars, nodeVars, firstPoll, sincePoll, lastPoll,
                 drainLoops, timersArmed, haltCalls, shutdownErr>>

\* drain goroutine, case <-gracefulChan: return (ticker.Stop)
GoPollCancelledEnabled == alive /\ impl = "go" /\ pollPc = "select" /\ gracefulChan = "closed"
GoPollCancelled ==
  /\ GoPollCancelledEnabled
  /\ pollPc' = "returned"
  /\ SetTimer("tick", -1)
  /\ lastReady' = NoReady
  /\ UNCHANGED <<mainPc, shutdownInitiated, gracefulChan, shutdownTimerSt, pollN, tickerC,
                 cfgVars, smpVars, decVars, procVars, connVars, sigVars, nodeVars, histVars>>

\* The deadline timer fires: its func closes gracefulChan.  Nothing ever
\* stops the timer, so it fires whenever the process still exists.
GoTimerFireEnabled == alive /\ impl = "go" /\ shutdownTimerSt = "armed" /\ timer["deadline"] = 0
GoTimerFire ==
  /\ GoTimerFireEnabled
  /\ closeGracefulChan("timer")
  /\ shutdownTimerSt' = "fired"
  /\ SetTimer("deadline", -1)
  /\ lastReady' = NoReady
  /\ UNCHANGED <<mainPc, shutdownInitiated, pollPc, pollN, tickerC, listener, cfgVars, smpVars, decVars,
                 connVars, sigVars, nodeVars, firstPoll, sincePoll, lastPoll,
                 drainLoops, timersArmed, haltCalls, shutdownErr>>

\* Mutant of DrainOver: doGracefulShutdown does not wait for the channel.
DrainOver_NoWait == TRUE

\* doGracefulShutdown's wait is released: <-gracefulChan
DrainOver == gracefulChan = "closed"
GoMainReleasedEnabled == alive /\ impl = "go" /\ mainPc = "waitChan" /\ DrainOver
GoMainReleased ==
  /\ GoMainReleasedEnabled
  /\ mainPc' = "shutdown"
  /\ lastReady' = NoReady
  /\ UNCHANGED <<shutdownInitiated, gracefulChan, shutdownTimerSt, pollPc, pollN, tickerC,
                 cfgVars, smpVars, decVars, procVars, connVars, sigVars, nodeVars, timer, histVars>>

\* server.Shutdown closes the idle connections; it is done when no
\* connection is left serving a request.
Quiescent == \A c \in Conns : conn[c] # "active"
CloseIdleConns ==
  /\ conn' = [c \in Conns |-> IF conn[c] = "idle" THEN "closed" ELSE conn[c]]
  /\ numConnections' = TrackClosed(numConnections, Cardinality(Idle))
  /\ closes' = closes + Cardinality(Idle)
  /\ UNCHANGED <<pinned, opens>>

\* shutdown: server.Shutdown(ctx) with a 30 s context: the listener is closed.
GoServerShutdownEnabled == alive /\ impl = "go" /\ mainPc = "shutdown"
GoServerShutdown ==
  /\ GoServerShutdownEnabled
  /\ listener' = "closed"
  /\ haltCalls' = Cap(haltCalls + 1, 2)
  /\ closedBy' = IF closedBy = "none" THEN "direct" ELSE closedBy
  /\ CloseIdleConns
  /\ IF Quiescent
       THEN mainPc' = "return" /\ timer' = timer
       ELSE mainPc' = "shutdownWait" /\ SetTimer("ctx", shutdownTimeout)
  /\ lastReady' = NoReady
  /\ UNCHANGED <<alive, panicked, shutdownInitiated, gracefulChan, shutdownTimerSt, pollPc,
                 pollN, tickerC, cfgVars, smpVars, decVars, sigVars, nodeVars, firstPoll, sincePoll,
                 lastPoll, drainLoops, timersArmed, shutdownErr>>

\* server.Shutdown's own poll finds every connection idle or gone: returns nil.
GoShutdownPollEnabled ==
  alive /\ impl = "go" /\ mainPc = "shutdownWait" /\ Quiescent
GoShutdownPoll ==
  /\ GoShutdownPollEnabled
  /\ CloseIdleConns
  /\ mainPc' = "return"
  /\ SetTimer("ctx", -1)
  /\ lastReady' = NoReady
  /\ UNCHANGED <<shutdownInitiated, gracefulChan, shutdownTimerSt, pollPc, pollN, tickerC,
                 cfgVars, smpVars, decVars, procVars, sigVars, nodeVars, histVars>>

\* server.Shutdown's context expires: it returns ctx.Err(), which is logged.
GoShutdownTimeoutEnabled ==
  alive /\ impl = "go" /\ mainPc = "shutdownWait" /\ timer["ctx"] = 0
GoShutdownTimeout ==
  /\ GoShutdownTimeoutEnabled
  /\ shutdownErr' = TRUE
  /\ mainPc' = "return"
  /\ SetTimer("ctx", -1)
  /\ lastReady' = NoReady
  /\ UNCHANGED <<shutdownInitiated, gracefulChan, shutdownTimerSt, pollPc, pollN, tickerC,
                 cfgVars, smpVars, decVars, procVars, connVars, sigVars, nodeVars, firstPoll,
                 sincePoll, lastPoll, closedBy, drainLoops, timersArmed, haltCalls>>

\* shutdown returns and main with it: the process exits.
GoExitEnabled == alive /\ impl = "go" /\ mainPc = "return"
GoExit ==
  /\ GoExitEnabled
  /\ alive' = FALSE
  /\ mainPc' = "exited"
  /\ lastReady' = NoReady
  /\ UNCHANGED <<panicked, listener, shutdownInitiated, gracefulChan, shutdownTimerSt, pollPc,
                 pollN, tickerC, cfgVars, smpVars, decVars, connVars, sigVars, nodeVars, timer, histVars>>

GoRunnable ==
  \/ GoSigGoroutineEnabled \/ GoMainDoneEnabled \/ GoStoreEnabled \/ GoDoGracefulEnabled
  \/ GoTickerFireEnabled \/ GoPollTickEnabled \/ GoPollCloseEnabled \/ GoPollCancelledEnabled
  \/ GoTimerFireEnabled \/ GoMainReleasedEnabled \/ GoServerShutdownEnabled
  \/ GoShutdownPollEnabled \/ GoShutdownTimeoutEnabled \/ GoExitEnabled

\* -------------------------------------------------------- node coordinator
\* server.close(): stop accepting; connections that are not serving a
\* request are closed, the others are left to finish.
serverClose(who) ==
  /\ listener' = "closed"
  /\ haltCalls' = Cap(haltCalls + 1, 2)
  /\ closedBy' = IF closedBy = "none" THEN who ELSE closedBy
  /\ CloseIdleConns

\* drainConnections' test of the count it got: all connections are gone.
NodeDrained(count) == count <= 0

\* getConnectionsAsync(server): the promise resolves with the count, or is
\* rejected with the error server.getConnections reports.
getConnectionsAsync ==
  {[err |-> FALSE, count |-> getConnections], [err |-> TRUE, count |-> 0]}

\* One turn of drainConnections' loop, for the loop started by signal i:
\* count = await getConnectionsAsync(server); close, or await delay(500).
\* A rejection leaves the loop through the catch, which only logs.
drainTurn(i) ==
  \E res \in getConnectionsAsync :
    IF res.err
      THEN /\ loopSt' = [loopSt EXCEPT ![i] = "failed"]
           /\ loopDelay' = [loopDelay EXCEPT ![i] = -1]
           /\ UNCHANGED <<firstPoll, lastPoll, listener, haltCalls, closedBy, connVars>>
      ELSE /\ firstPoll' = IF firstPoll = -1 THEN res.count ELSE firstPoll
           /\ lastPoll' = res.count
           /\ IF NodeDrained(res.count)
                THEN /\ serverClose("poll")
                     /\ loopSt' = [loopSt EXCEPT ![i] = "ended"]
                     /\ loopDelay' = [loopDelay EXCEPT ![i] = -1]
                ELSE /\ loopSt' = [loopSt EXCEPT ![i] = "waiting"]
                     /\ loopDelay' = [loopDelay EXCEPT ![i] = pollDelay]
                     /\ UNCHANGED <<listener, haltCalls, closedBy, connVars>>

\* The event loop is empty (no listener, no socket, no timer): node exits.
NodeExitEnabled ==
  /\ alive /\ impl = "node" /\ listener = "closed" /\ Live = {}
  /\ \A i \in Loops : loopSt[i] # "waiting"

\* process.on('SIGTERM' | 'SIGINT'): gracefulShutdown(sig).  On the drain
\* path drainConnections sets draining and runs its first turn at once.
\* (A process whose event loop has run empty handles no further signal.)
gracefulShutdownNode ==
  /\ alive /\ impl = "node" /\ sigsSent < MaxSignals /\ ~NodeExitEnabled
  /\ sigsSent' = sigsSent + 1
  /\ IF ~ENABLE_DRAIN \/ DRAIN_TIMEOUT <= 0
       THEN /\ serverClose("direct")
            /\ UNCHANGED <<draining, loopSt, loopDelay, firstPoll, lastPoll, drainLoops>>
       ELSE /\ draining' = TRUE
            /\ drainLoops' = Cap(drainLoops + 1, 2)
            /\ drainTurn(sigsSent + 1)
  /\ lastReady' = NoReady
  /\ UNCHANGED <<alive, panicked, sigs, sigPc, done, cfgVars, smpVars, decVars, goVars, timer, sincePoll, timersArmed, shutdownErr>>

\* delay(500) resolves: the next turn of that drain loop.
NodePollEnabled(i) == alive /\ impl = "node" /\ loopSt[i] = "waiting" /\ loopDelay[i] = 0
drainConnections(i) ==
  /\ NodePollEnabled(i)
  /\ drainTurn(i)
  /\ lastReady' = NoReady
  /\ UNCHANGED <<alive, panicked, draining, cfgVars, smpVars, decVars, sigVars, goVars, timer, sincePoll, drainLoops, timersArmed, shutdownErr>>

NodeExit ==
  /\ NodeExitEnabled
  /\ alive' = FALSE
  /\ lastReady' = NoReady
  /\ UNCHANGED <<panicked, listener, cfgVars, smpVars, decVars, connVars, sigVars, goVars, nodeVars, timer,
                 histVars>>

NodeRunnable == NodeExitEnabled \/ \E i \in Loops : NodePollEnabled(i)

\* -------------------------------------------------------------------- time
Pending == {timer[t] : t \in {u \in TimerNames : timer[u] > 0}}
             \cup {loopDelay[i] : i \in {j \in Loops : loopDelay[j] > 0}}

\* Time passes up to the next pending timer.
Advance ==
  /\ alive /\ ~GoRunnable /\ ~NodeRunnable
  /\ Pending # {}
  /\ LET d == Min(Pending)
     IN /\ timer' = [t \in TimerNames |-> IF timer[t] > 0 THEN timer[t] - d ELSE timer[t]]
        /\ loopDelay' = [i \in Loops |-> IF loopDelay[i] > 0 THEN loopDelay[i] - d
                                                              ELSE loopDelay[i]]
  /\ sincePoll' = (sincePoll \/ (firstPoll >= 0 /\ listener = "open"))
  /\ lastReady' = NoReady
  /\ UNCHANGED <<cfgVars, smpVars, decVars, procVars, connVars, sigVars, goVars, draining, loopSt, firstPoll, lastPoll, closedBy, drainLoops, timersArmed, haltCalls, shutdownErr>>

\* ------------------------------------------------------- response decorator
\* No response is being written.
NoResponse ==
  /\ script = <<>> /\ callPc = 1 /\ subPc = "call"
  /\ headerWritten = FALSE /\ hdrConn = 0 /\ wroteHeader = FALSE /\ sentConn = 0
  /\ isReaderFrom = TRUE /\ checkPhase = "none" /\ commitPhase = "none" /\ checks = 0

\* go: graceful(next) wraps the handler only when GRACEFUL_SHUTDOWN is set.
Decorated == impl = "go" /\ gracefulShutdown

\* The calls the routed handlers (sleep, status, proxy, http.Error, NotFound)
\* make on their ResponseWriter.
RoutedCalls == {"WriteHeader", "Write", "ReadFrom"}

\* The methods connectionCloseWriter defines: any handler may call them.
Calls == RoutedCalls \cup {"Flush"}

\* The handler of this response calls Flush.
UsesFlush == \E k \in DOMAIN script : script[k] = "Flush"

\* Mutant of Intercepts: only WriteHeader injects, Write and ReadFrom forget to.
Intercepts_OnlyWriteHeader(call) == call = "WriteHeader"

\* connectionCloseWriter: the methods that begin with w.injectHeader().
Intercepts(call) == call \in {"WriteHeader", "Write", "ReadFrom"}

\* Mutant of injectHeader: the headerWritten guard is missing.
injectHeader_NoGuard ==
  /\ headerWritten' = TRUE
  /\ checks' = checks + 1
  /\ checkPhase' = Phase
  /\ hdrConn' = IF shutdownInitiated THEN 1 ELSE hdrConn

\* connectionCloseWriter.injectHeader
injectHeader ==
  IF ~headerWritten
    THEN /\ headerWritten' = TRUE
         /\ checks' = checks + 1
         /\ checkPhase' = Phase
         /\ hdrConn' = IF shutdownInitiated THEN 1 ELSE hdrConn
    ELSE UNCHANGED <<headerWritten, checks, checkPhase, hdrConn>>

\* The underlying http.ResponseWriter commits the headers on the first
\* WriteHeader, Write, ReadFrom or Flush it gets; later changes of the header
\* map are not sent.
commitHeaders ==
  IF ~wroteHeader
    THEN wroteHeader' = TRUE /\ sentConn' = hdrConn /\ commitPhase' = Phase
    ELSE UNCHANGED <<wroteHeader, sentConn, commitPhase>>

\* go: the handler enters WriteHeader, Write, ReadFrom or Flush of the writer
\* it was given; the decorator runs injectHeader first, except in Flush.
HandlerCall ==
  /\ alive /\ impl = "go" /\ callPc <= Len(script) /\ subPc = "call"
  /\ IF Decorated /\ Intercepts(script[callPc])
       THEN injectHeader
       ELSE UNCHANGED <<headerWritten, checks, checkPhase, hdrConn>>
  /\ subPc' = "delegate"
  /\ UNCHANGED <<script, callPc, wroteHeader, sentConn, isReaderFrom, commitPhase,
                 cfgVars, smpVars, procVars, connVars, sigVars, goVars, nodeVars, timer, lastReady,
                 histVars>>

\* go: the call reaches the underlying writer: w.ResponseWriter.WriteHeader /
\* Write, for ReadFrom rf.ReadFrom(src), else io.Copy(w.ResponseWriter, src)
\* (which writes to the underlying writer, not through the decorator), and
\* for Flush f.Flush() (the server's writer is an http.Flusher).
HandlerDelegate ==
  /\ alive /\ impl = "go" /\ callPc <= Len(script) /\ subPc = "delegate"
  /\ CASE script[callPc] = "WriteHeader" -> commitHeaders
       [] script[callPc] = "Write" -> commitHeaders
       [] script[callPc] = "ReadFrom" ->
            IF isReaderFrom THEN commitHeaders ELSE commitHeaders
       [] script[callPc] = "Flush" -> commitHeaders
  /\ callPc' = callPc + 1
  /\ subPc' = "call"
  /\ UNCHANGED <<script, headerWritten, hdrConn, isReaderFrom, checkPhase, checks,
                 cfgVars, smpVars, procVars, connVars, sigVars, goVars, nodeVars, timer, lastReady,
                 histVars>>

\* node: a request handler answers with respond(res, status, msg): the header
\* is decided and the response ended in one turn of the event loop.
NodeRespond ==
  /\ alive /\ impl = "node" /\ callPc <= Len(script)
  /\ LET r == respond(StatusOK)
     IN /\ hdrConn' = (IF r.close THEN 1 ELSE 0)
        /\ sentConn' = (IF r.close THEN 1 ELSE 0)
  /\ wroteHeader' = TRUE
  /\ checks' = checks + 1
  /\ checkPhase' = Phase
  /\ commitPhase' = Phase
  /\ callPc' = callPc + 1
  /\ UNCHANGED <<script, subPc, headerWritten, isReaderFrom,
                 cfgVars, smpVars, procVars, connVars, sigVars, goVars, nodeVars, timer, lastReady,
                 histVars>>

\* ------------------------------------------------------------ float32
\* float32 values as the sampler computes them.  A finite value is kept as a
\* whole number of units of 2^-27, which holds exactly every value that
\* arises here (weights are whole numbers, totals are below 16, draws are
\* multiples of 2^-24); results are rounded to the 24-bit significand,
\* ties to even.
F32MantBits == 24
F32FracBits == 27

RECURSIVE Pow2(_)
Pow2(n) == IF n = 0 THEN 1 ELSE 2 * Pow2(n - 1)

F32Unit == Pow2(F32FracBits)

RECURSIVE BitLen(_)
BitLen(a) == IF a = 0 THEN 0 ELSE 1 + BitLen(a \div 2)

Fin(v) == [k |-> "fin", v |-> v]
F32NaN == [k |-> "nan", v |-> 0]
F32Inf(sgn) == [k |-> "inf", v |-> sgn]
F32Zero == Fin(0)
Sign(v) == IF v < 0 THEN -1 ELSE 1
Abs(v) == IF v < 0 THEN -v ELSE v

\* a >= 0 rounded to F32MantBits significant bits; sticky: the exact value
\* lies above a (bits were already dropped).
RoundSig(a, sticky) ==
  LET sh == BitLen(a) - F32MantBits IN
  IF sh <= 0 THEN a
  ELSE LET q == a \div Pow2(sh)
           rem == a % Pow2(sh)
           half == Pow2(sh - 1)
           up == rem > half \/ (rem = half /\ (sticky \/ q % 2 = 1))
       IN (IF up THEN q + 1 ELSE q) * Pow2(sh)

F32Round(n) == Fin(Sign(n) * RoundSig(Abs(n), FALSE))

\* a + b
F32Add(a, b) ==
  IF a.k = "nan" \/ b.k = "nan" THEN F32NaN
  ELSE IF a.k = "inf" /\ b.k = "inf" THEN (IF a.v = b.v THEN a ELSE F32NaN)
  ELSE IF a.k = "inf" THEN a
  ELSE IF b.k = "inf" THEN b
  ELSE F32Round(a.v + b.v)

\* a * b, for a a whole number (a parsed weight) or NaN
F32Mul(a, b) ==
  IF a.k = "nan" \/ b.k = "nan" THEN F32NaN
  ELSE IF b.k = "inf" THEN (IF a.v = 0 THEN F32NaN ELSE F32Inf(Sign(a.v) * b.v))
  ELSE F32Round((a.v \div F32Unit) * b.v)

\* float32(1.0) / t, for t a whole number below 16 in magnitude, or NaN
F32Inv(t) ==
  IF t.k = "nan" THEN F32NaN
  ELSE IF t.v = 0 THEN F32Inf(1)
  ELSE LET n == Abs(t.v) \div F32Unit
           x == Pow2(F32FracBits + 3) \div n
           sticky == Pow2(F32FracBits + 3) % n # 0
       IN Fin(Sign(t.v) * (RoundSig(x, sticky) \div Pow2(3)))

\* a <= b: false as soon as one side is NaN
F32Le(a, b) ==
  /\ a.k # "nan" /\ b.k # "nan"
  /\ CASE a.k = "inf" -> a.v < 0 \/ (b.k = "inf" /\ b.v > 0)
       [] b.k = "inf" -> b.v > 0
       [] OTHER -> a.v <= b.v

\* a < b
F32Lt(a, b) == F32Le(a, b) /\ ~F32Le(b, a)

\* ---------------------------------------------------------- latency sampler
\* A query parameter holding a duration: absent, unparsable, or parsed (ms).
Absent == [given |-> FALSE, ok |-> FALSE, val |-> 0]
Invalid == [given |-> TRUE, ok |-> FALSE, val |-> 0]
Given(v) == [given |-> TRUE, ok |-> TRUE, val |-> v]

Durations == {100, 200}
Params == {Absent, Invalid} \cup {Given(v) : v \in Durations}

\* The weights fmt.Sscanf("%f") yields for the pdf pairs considered: whole
\* numbers, and NaN (which %f accepts).
Weights == {Fin(w * F32Unit) : w \in {-1, 0, 1, 2}} \cup {F32NaN}

\* A pdf pair: parsed into (dur, prob), or malformed (no colon, or a
\* duration or probability that does not parse).
Malformed == [ok |-> FALSE, dur |-> 0, prob |-> F32Zero]
Pairs == {[ok |-> TRUE, dur |-> d, prob |-> w] : d \in Durations, w \in Weights} \cup {Malformed}

RECURSIVE PdfSeqs(_)
PdfSeqs(n) ==
  IF n = 0 THEN {<<>>}
  ELSE PdfSeqs(n - 1) \cup {Append(sq, pr) : sq \in {x \in PdfSeqs(n - 1) : Len(x) = n - 1}, pr \in Pairs}

NoRequest == [minD |-> Absent, maxD |-> Absent, pdf |-> <<>>]

\* The /sleep requests considered: uniform mode (no pdf), weighted mode.
Requests ==
  {[minD |-> a, maxD |-> b, pdf |-> <<>>] : a \in Params, b \in Params}
    \cup {[minD |-> Absent, maxD |-> Absent, pdf |-> sq] : sq \in PdfSeqs(MaxPairs) \ {<<>>}}

\* rand.Float32(): a multiple of 2^-24 in [0, 1).  The draws considered: 0,
\* the smallest positive one, 1/4, 1/2, the one after 1/2, 3/4, the largest.
Float32Bits == 24
Float32Draws ==
  {Fin(j * Pow2(F32FracBits - Float32Bits)) :
     j \in {0, 1, Pow2(Float32Bits - 2), Pow2(Float32Bits - 1), Pow2(Float32Bits - 1) + 1,
            3 * Pow2(Float32Bits - 2), Pow2(Float32Bits) - 1}}
NoDraw == [k |-> "none", v |-> 0]

\* What a /sleep handler has done with the request.
NoSleep == [st |-> "idle", status |-> 0, dur |-> -1, r |-> NoDraw, slept |-> FALSE]
\* http.Error(w, ..., http.StatusBadRequest)
Rejected == [st |-> "rejected", status |-> StatusBadRequest, dur |-> -1, r |-> NoDraw, slept |-> FALSE]
\* the handler panicked: net/http recovers, logs and aborts the connection
Panicked == [st |-> "panicked", status |-> 0, dur |-> -1, r |-> NoDraw, slept |-> FALSE]
\* the handler is in time.Sleep(sleepDuration) / setTimeout / Thread.sleep
Sleeping(d, r) == [st |-> "sleeping", status |-> 0, dur |-> d, r |-> r, slept |-> FALSE]

\* sum of the first n entries, accumulated left to right in float32
RECURSIVE cumProb(_, _)
cumProb(ps, n) == IF n = 0 THEN F32Zero ELSE F32Add(cumProb(ps, n - 1), ps[n])

\* sleep: totalProb += prob over all pairs
totalProb(ps) == cumProb(ps, Len(ps))

\* Mutant of RejectsTotal: only a negative total is refused.
RejectsTotal_OnlyNegative(total) == F32Lt(total, F32Zero)

\* sleep: if totalProb <= 0.0 { ... 400 }
RejectsTotal(total) == F32Le(total, F32Zero)

\* sleep: probabilities[i] *= invTotalProb
normalized(ps) ==
  LET invTotalProb == F32Inv(totalProb(ps))
  IN [i \in DOMAIN ps |-> F32Mul(ps[i], invTotalProb)]

\* buildInverseDiscreteCDF: cdf[i] = cumProb
cdfOf(probabilities) == [i \in DOMAIN probabilities |-> cumProb(probabilities, i)]

\* Mutant of Selects: the comparison is strict.
Selects_Strict(r, cp) == F32Lt(r, cp)

\* inverseCDF: if r <= cp
Selects(r, cp) == F32Le(r, cp)

\* inverseCDF: the loop over cdf from entry i on, then the fallback
RECURSIVE inverseCDF(_, _, _, _)
inverseCDF(values, cdf, r, i) ==
  IF i > Len(cdf) THEN values[Len(values)]
  ELSE IF Selects(r, cdf[i]) THEN values[i]
  ELSE inverseCDF(values, cdf, r, i + 1)

\* buildInverseDiscreteCDF(values, probabilities): the sampler, as a function
\* of the draw
buildInverseDiscreteCDF(values, probabilities) ==
  [r \in Float32Draws |-> inverseCDF(values, cdfOf(probabilities), r, 1)]

\* rand.Int63n(n), for n > 0 (it panics otherwise)
Int63n(n) == 0..(n - 1)

\* go: sleep(w, r) up to time.Sleep: the outcomes it can have.
sleep(q) ==
  IF q.pdf # <<>>
    THEN IF \E i \in DOMAIN q.pdf : ~q.pdf[i].ok THEN {Rejected}
         ELSE LET values == [i \in DOMAIN q.pdf |-> q.pdf[i].dur]
                  probabilities == [i \in DOMAIN q.pdf |-> q.pdf[i].prob]
              IN IF RejectsTotal(totalProb(probabilities)) THEN {Rejected}
                 ELSE {Sleeping(buildInverseDiscreteCDF(values, normalized(probabilities))[r], r) :
                         r \in Float32Draws}
    ELSE IF q.minD.given /\ ~q.minD.ok THEN {Rejected}
         ELSE IF q.maxD.given /\ ~q.maxD.ok THEN {Rejected}
         ELSE LET lo == IF q.minD.given THEN q.minD.val ELSE GoDefaultLo
                  hi == IF q.maxD.given THEN q.maxD.val ELSE GoDefaultHi
              IN IF hi - lo + 1 <= 0 THEN {Panicked}
                 ELSE {Sleeping(lo + j, NoDraw) : j \in Int63n(hi - lo + 1)}

\* node: the /sleep branch of the request handler up to setTimeout.
\* Math.floor(Number(v)) || DEFAULT: absent, unparsable and 0 give the default.
sleepNode(q) ==
  LET min == IF q.minD.given /\ q.minD.ok /\ q.minD.val # 0 THEN q.minD.val ELSE DEFAULT_MIN
      max == IF q.maxD.given /\ q.maxD.ok /\ q.maxD.val # 0 THEN q.maxD.val ELSE DEFAULT_MAX
      range == max - min
  IN IF range > 0 THEN {Sleeping(min + j, NoDraw) : j \in 0..range}
     ELSE {Sleeping(min, NoDraw)}

\* java: DemoApplication.sleep up to Thread.sleep.  An unparsable long is
\* refused by the framework with 400.
sleepJava(q) ==
  IF (q.minD.given /\ ~q.minD.ok) \/ (q.maxD.given /\ ~q.maxD.ok) THEN {Rejected}
  ELSE LET min0 == IF q.minD.given THEN q.minD.val ELSE JavaDefaultMin
           max0 == IF q.maxD.given THEN q.maxD.val ELSE JavaDefaultMax
           min == IF min0 < 0 THEN 0 ELSE min0
           max1 == IF max0 < min THEN min ELSE max0
           max == IF max1 > JavaMaxSleep THEN JavaMaxSleep ELSE max1
           d == max - min
       IN {Sleeping(min + j, NoDraw) :
             j \in (IF d > 0 THEN 0..(d - 1) ELSE IF d = 0 THEN {0} ELSE (d + 1)..0)}

OtherVars == <<cfgVars, procVars, connVars, sigVars, goVars, nodeVars, timer, lastReady,
               histVars, decVars>>

\* The handler of the service takes the request and samples the delay.
SleepRequest ==
  /\ resp.st = "idle"
  /\ resp' \in (CASE impl = "go" -> sleep(req)
                  [] impl = "node" -> sleepNode(req)
                  [] OTHER -> sleepJava(req))
  /\ UNCHANGED <<req, OtherVars>>

\* The delay is over: the handler reports it ("Slept for ...", 200).
SleepWake ==
  /\ resp.st = "sleeping"
  /\ resp' = [resp EXCEPT !.st = "done", !.status = StatusOK, !.slept = TRUE]
  /\ UNCHANGED <<req, OtherVars>>

\* ------------------------------------------------------------ specification
\* The values process.env.DRAIN_TIMEOUT is given.
DrainTimeoutEnv == {"unset", "-1", "0"}

\* Number(v) for those values: Number(undefined) is NaN.
Number(e) ==
  CASE e = "-1" -> [nan |-> FALSE, val |-> -1]
    [] e = "0" -> [nan |-> FALSE, val |-> 0]
    [] OTHER -> [nan |-> TRUE, val |-> 0]

\* Number(process.env.DRAIN_TIMEOUT) || 5000: NaN and 0 are both falsy.
DrainTimeoutOf(e) ==
  IF Number(e).nan \/ Number(e).val = 0 THEN DEFAULT_DRAIN_TIMEOUT ELSE Number(e).val

Init ==
  /\ impl \in {"go", "node"}
  /\ gracefulShutdown \in (IF impl = "go" THEN BOOLEAN ELSE {FALSE})
  /\ ENABLE_DRAIN \in (IF impl = "node" THEN BOOLEAN ELSE {FALSE})
  /\ DRAIN_TIMEOUT_ENV \in (IF impl = "node" THEN DrainTimeoutEnv ELSE {"unset"})
  /\ DRAIN_TIMEOUT = DrainTimeoutOf(DRAIN_TIMEOUT_ENV)
  /\ alive = TRUE /\ panicked = FALSE /\ listener = "open"
  /\ conn = [c \in Conns |-> "none"] /\ pinned = {} /\ numConnections = 0
  /\ sigsSent = 0 /\ sigs = 0 /\ sigPc = "recv" /\ done = 0
  /\ mainPc = "waitDone" /\ shutdownInitiated = FALSE /\ gracefulChan = "nil"
  /\ shutdownTimerSt = "unarmed" /\ pollPc = "none" /\ pollN = 0 /\ tickerC = 0
  /\ draining = FALSE /\ loopSt = [i \in Loops |-> "unused"]
  /\ loopDelay = [i \in Loops |-> -1]
  /\ timer = [t \in TimerNames |-> -1]
  /\ lastReady = NoReady
  /\ opens = 0 /\ closes = 0
  /\ firstPoll = -1 /\ sincePoll = FALSE /\ lastPoll = -1 /\ closedBy = "none"
  /\ drainLoops = 0 /\ timersArmed = 0 /\ haltCalls = 0 /\ shutdownErr = FALSE
  /\ NoResponse
  /\ req = NoRequest /\ resp = NoSleep

Transport ==
  \E c \in Conns : Accept(c) \/ ConnIdle(c) \/ ConnActive(c) \/ ConnClose(c) \/ ConnHijack(c)

GoStep ==
  \/ GoSigGoroutine \/ GoMainDone \/ GoStore \/ doGracefulShutdown
  \/ GoTickerFire \/ GoPollTick \/ GoPollClose \/ GoPollCancelled
  \/ GoTimerFire \/ GoMainReleased \/ GoServerShutdown
  \/ GoShutdownPoll \/ GoShutdownTimeout \/ GoExit

NodeStep == NodeExit \/ \E i \in Loops : drainConnections(i)

Next ==
  \/ Transport
  \/ Ready
  \/ GoSignal
  \/ gracefulShutdownNode
  \/ GoStep
  \/ NodeStep
  \/ Advance

Spec == Init /\ [][Next]_vars

\* The coordinator's own steps and the passing of time are always served;
\* clients (connections, probes, signals) are under no obligation.
FairSpec == Spec /\ WF_vars(GoStep) /\ WF_vars(NodeStep) /\ WF_vars(Advance)

\* One response written while the coordinator flips the phase.  The service
\* starts with a connection serving the request; the go coordinator has got
\* the signal and slept, and is about to store the flag.
RECURSIVE Scripts(_)
Scripts(n) ==
  IF n = 0 THEN {<<>>}
  ELSE Scripts(n - 1) \cup {Append(sq, k) : sq \in {x \in Scripts(n - 1) : Len(x) = n - 1}, k \in Calls}

DecInit ==
  /\ impl \in {"go", "node"}
  /\ gracefulShutdown \in (IF impl = "go" THEN BOOLEAN ELSE {FALSE})
  /\ ENABLE_DRAIN \in (IF impl = "node" THEN BOOLEAN ELSE {FALSE})
  /\ DRAIN_TIMEOUT_ENV \in (IF impl = "node" THEN DrainTimeoutEnv ELSE {"unset"})
  /\ DRAIN_TIMEOUT = DrainTimeoutOf(DRAIN_TIMEOUT_ENV)
  /\ alive = TRUE /\ panicked = FALSE /\ listener = "open"
  /\ conn = [c \in Conns |-> IF c = 1 THEN "active" ELSE "none"]
  /\ pinned = {} /\ numConnections = (IF impl = "go" THEN 1 ELSE 0)
  /\ sigsSent = (IF impl = "go" THEN 1 ELSE 0) /\ sigs = 0
  /\ sigPc = (IF impl = "go" THEN "done" ELSE "recv") /\ done = 0
  /\ mainPc = (IF impl = "go" THEN "sleep" ELSE "waitDone")
  /\ shutdownInitiated = FALSE /\ gracefulChan = "nil"
  /\ shutdownTimerSt = "unarmed" /\ pollPc = "none" /\ pollN = 0 /\ tickerC = 0
  /\ draining = FALSE /\ loopSt = [i \in Loops |-> "unused"]
  /\ loopDelay = [i \in Loops |-> -1]
  /\ timer = [t \in TimerNames |-> IF t = "sleep" /\ impl = "go" THEN 0 ELSE -1]
  /\ lastReady = NoReady
  /\ opens = 1 /\ closes = 0
  /\ firstPoll = -1 /\ sincePoll = FALSE /\ lastPoll = -1 /\ closedBy = "none"
  /\ drainLoops = 0 /\ timersArmed = 0 /\ haltCalls = 0 /\ shutdownErr = FALSE
  /\ script \in (IF impl = "go" THEN Scripts(MaxCalls) \ {<<>>} ELSE {<<"respond">>})
  /\ isReaderFrom \in (IF impl = "go" THEN BOOLEAN ELSE {TRUE})
  /\ callPc = 1 /\ subPc = "call"
  /\ headerWritten = FALSE /\ hdrConn = 0 /\ wroteHeader = FALSE /\ sentConn = 0
  /\ checkPhase = "none" /\ commitPhase = "none" /\ checks = 0
  /\ req = NoRequest /\ resp = NoSleep

DecNext ==
  \/ GoStore
  \/ gracefulShutdownNode
  \/ HandlerCall
  \/ HandlerDelegate
  \/ NodeRespond

DecSpec == DecInit /\ [][DecNext]_vars

\* One /sleep request handled by one of the three services; the coordinator
\* is at rest.
SamplerInit ==
  /\ impl \in {"go", "node", "java"}
  /\ gracefulShutdown = FALSE /\ ENABLE_DRAIN = FALSE
  /\ DRAIN_TIMEOUT_ENV = "unset" /\ DRAIN_TIMEOUT = DrainTimeoutOf(DRAIN_TIMEOUT_ENV)
  /\ alive = TRUE /\ panicked = FALSE /\ listener = "open"
  /\ conn = [c \in Conns |-> IF c = 1 THEN "active" ELSE "none"]
  /\ pinned = {} /\ numConnections = (IF impl = "go" THEN 1 ELSE 0)
  /\ sigsSent = 0 /\ sigs = 0 /\ sigPc = "recv" /\ done = 0
  /\ mainPc = "waitDone" /\ shutdownInitiated = FALSE /\ gracefulChan = "nil"
  /\ shutdownTimerSt = "unarmed" /\ pollPc = "none" /\ pollN = 0 /\ tickerC = 0
  /\ draining = FALSE /\ loopSt = [i \in Loops |-> "unused"]
  /\ loopDelay = [i \in Loops |-> -1]
  /\ timer = [t \in TimerNames |-> -1]
  /\ lastReady = NoReady
  /\ opens = 1 /\ closes = 0
  /\ firstPoll = -1 /\ sincePoll = FALSE /\ lastPoll = -1 /\ closedBy = "none"
  /\ drainLoops = 0 /\ timersArmed = 0 /\ haltCalls = 0 /\ shutdownErr = FALSE
  /\ NoResponse
  /\ req \in (IF impl = "go" THEN Requests ELSE {q \in Requests : q.pdf = <<>>})
  /\ resp = NoSleep

SamplerNext == SleepRequest \/ SleepWake

SamplerSpec == SamplerInit /\ [][SamplerNext]_vars

\* ================================================================== claims

\* ---- C1 -----------------------------------------------------------------
\* C1 (as claimed): whichever of the zero-count poll and the deadline timer
\* comes second is a no-op: it causes no crash.  The go service closes
\* gracefulChan from both, and closing a closed channel panics.
C1_LoserIsNoOp == impl = "go" => ~panicked

\* ---- C2 -----------------------------------------------------------------
\* C2 (as claimed): with drain enabled and a live connection that never
\* closes, Draining still leads to Stopped, forced by the deadline.  (A
\* process that died of C1's double close, or a drain loop that a failed
\* read of the count has ended, is not held against this claim.)
C2_DeadlineForcesStopped ==
  (DrainEnabled /\ Phase = "Draining" /\ pinned # {})
    ~> (Phase = "Stopped" \/ panicked \/ \E i \in Loops : loopSt[i] = "failed")

\* ---- C3 -----------------------------------------------------------------
\* C3 (as claimed): with drain enabled, every response whose headers are
\* committed once the phase is Draining carries Connection: close exactly
\* once, under any interleaving of the flip with the handler.
C3_CommittedWhileDrainingCloses ==
  (DrainEnabled /\ ~UsesFlush /\ wroteHeader /\ commitPhase # "Running") => sentConn = 1

\* C3 (amended): with drain enabled, every response written with WriteHeader,
\* Write and ReadFrom calls (as the routed handlers do) is checked before its
\* headers are committed, and it carries Connection: close exactly once when
\* that check ran once the phase was Draining, and not at all when the
\* check ran while the phase was still Running (even if the headers are
\* committed after the flip).
C3_CheckedWhileDrainingCloses ==
  (DrainEnabled /\ ~UsesFlush /\ wroteHeader) =>
    /\ checkPhase # "none"
    /\ sentConn = (IF checkPhase = "Running" THEN 0 ELSE 1)

\* C3 witness: a go handler finished a response of several calls, the first
\* a Write checked while Draining, and Connection: close was sent once.
C3_Witness ==
  /\ impl = "go" /\ Len(script) = MaxCalls /\ callPc > Len(script)
  /\ script[1] = "Write" /\ checkPhase = "Draining" /\ sentConn = 1

\* ---- C4 -----------------------------------------------------------------
\* C4: after every prefix of the lifecycle events delivered to the tracker
\* the Live Connection Count is opens minus closes, and is not negative.
C4_CountIsOpensMinusCloses ==
  impl = "go" => (numConnections = opens - closes /\ numConnections >= 0)

\* C4 witness: opens and both kinds of close (closed, hijacked) were counted.
C4_Witness ==
  /\ impl = "go" /\ opens = MaxConns
  /\ \E c, d \in Conns : conn[c] = "hijacked" /\ conn[d] = "closed"

\* ---- C5 -----------------------------------------------------------------
\* C5 (as claimed): /ready answers 200 while Running, and 503 with
\* Connection: close while Draining or Stopped.
C5_ReadinessFollowsPhase ==
  lastReady.status # 0 =>
    IF lastReady.phase = "Running"
      THEN lastReady.status = StatusOK
      ELSE lastReady.status = StatusServiceUnavailable /\ lastReady.close

C7_FirstPollZeroStops ==
  (DrainEnabled /\ firstPoll = 0) =>
    /\ ~sincePoll
    /\ closedBy \in {"none", "poll"}
    /\ listener = "open" => (alive /\ shutdownTimerSt # "fired")

\* C7 witness: the go service halted its listener after a first poll of zero
\* while its deadline timer was still pending.
C7_Witness ==
  /\ impl = "go" /\ gracefulShutdown /\ firstPoll = 0 /\ listener = "closed"
  /\ closedBy = "poll" /\ shutdownTimerSt = "armed" /\ timer["deadline"] > 0

\* ---- C8 -----------------------------------------------------------------
\* C8: with drain enabled the listener is halted only after the latest poll
\* read a count of zero or the deadline fired.
C8_StopOnlyAfterZeroOrDeadline ==
  (DrainEnabled /\ listener = "closed") => (lastPoll = 0 \/ shutdownTimerSt = "fired")

\* C8 witness: the listener was halted by the deadline, the latest poll
\* having read a positive count.
C8_Witness ==
  /\ DrainEnabled /\ listener = "closed" /\ lastPoll > 0 /\ shutdownTimerSt = "fired"

\* ---- C9 -----------------------------------------------------------------
\* C9 (as claimed): for any number of termination signals at most one drain
\* loop and one deadline timer are started and the listener is halted at
\* most once.
C9_DrainEnteredOnce == drainLoops <= 1 /\ timersArmed <= 1 /\ haltCalls <= 1

\* ---- C10 ----------------------------------------------------------------
\* C10 (as claimed): once Stopped is reached the process proceeds to exit,
\* whatever the in-flight requests and connections do.
C10_StoppedLeadsToExit == (listener = "closed") ~> ~alive

\* ---- C11 ----------------------------------------------------------------
\* The drain window the operator configured is non-positive.
WindowNonPositive == ~Number(DRAIN_TIMEOUT_ENV).nan /\ Number(DRAIN_TIMEOUT_ENV).val <= 0

\* The drain is configured off: the feature flag is off, or the window is
\* non-positive.
DrainConfiguredOff ==
  IF impl = "go" THEN ~gracefulShutdown ELSE (~ENABLE_DRAIN \/ WindowNonPositive)

\* C11 (as claimed): when the drain feature is disabled or the configured
\* drain window is non-positive, no drain poll loop is ever started, no
\* deadline timer armed and no count polled, and the listener is halted
\* directly.
C11_NoDrainWhenConfiguredOff ==
  DrainConfiguredOff =>
    /\ drainLoops = 0 /\ timersArmed = 0 /\ firstPoll = -1
    /\ listener = "closed" => closedBy = "direct"

\* ---- C12 ----------------------------------------------------------------
\* C12 (as claimed): a failed read of the live connection count is treated
\* as "connections still present": the coordinator keeps polling and Stopped
\* is still reached later, through a zero count or the deadline.
C12_FailedReadStillStops ==
  (\E i \in Loops : loopSt[i] = "failed") ~> (listener = "closed")

\* ---- C13 ----------------------------------------------------------------
\* The request is in uniform mode and both of its bounds parsed.
BoundsParsed ==
  req.pdf = <<>> /\ req.minD.given /\ req.minD.ok /\ req.maxD.given /\ req.maxD.ok

\* C13 (as claimed): in uniform mode, for parsed bounds with hi <= lo (equal
\* or less), the sampler returns exactly lo and the request completes
\* normally with the "Slept for" response.
C13_UniformFloor ==
  (BoundsParsed /\ req.maxD.val <= req.minD.val /\ resp.st # "idle") =>
    /\ resp.st \in {"sleeping", "done"}
    /\ resp.dur = req.minD.val
    /\ resp.st = "done" => (resp.status = StatusOK /\ resp.slept)

\* ---- C14 ----------------------------------------------------------------
\* The go service drew a duration from the request's distribution.
Sampled == impl = "go" /\ req.pdf # <<>> /\ resp.st \in {"sleeping", "done"}

\* The cumulative normalized weights of the request's distribution.
SampledCdf == cdfOf(normalized([i \in DOMAIN req.pdf |-> req.pdf[i].prob]))

\* The entries whose cumulative normalized weight is >= the draw.
Qualifying ==
  {i \in DOMAIN req.pdf :
     LET cp == SampledCdf[i]
     IN \/ cp.k = "inf" /\ cp.v > 0
        \/ cp.k = "fin" /\ cp.v >= resp.r.v}

\* C14: in weighted mode the sampled duration is that of the first entry, in
\* the given order, whose cumulative normalized weight is >= the draw r, and
\* that of the last entry when no entry qualifies; so it is always one of
\* the durations listed.
C14_FirstQualifyingOrLast ==
  Sampled =>
    /\ resp.dur = IF Qualifying = {} THEN req.pdf[Len(req.pdf)].dur
                  ELSE req.pdf[Min(Qualifying)].dur
    /\ \E i \in DOMAIN req.pdf : resp.dur = req.pdf[i].dur

\* C14 witness: of two entries with different durations the second was
\* sampled, being the first whose cumulative weight reaches the draw.
C14_Witness ==
  /\ Sampled /\ Len(req.pdf) = 2 /\ req.pdf[1].dur # req.pdf[2].dur
  /\ Qualifying = {2} /\ resp.dur = req.pdf[2].dur /\ resp.st = "done"

\* ---- C15 ----------------------------------------------------------------
\* The request is in weighted mode, all its pairs parsed, and its weights
\* sum to zero or less.
TotalNonPositive ==
  /\ req.pdf # <<>> /\ \A i \in DOMAIN req.pdf : req.pdf[i].ok
  /\ LET total == totalProb([i \in DOMAIN req.pdf |-> req.pdf[i].prob])
     IN total.k = "fin" /\ total.v <= 0

\* C15: a weighted-mode request whose weights sum to zero or less is
\* rejected with 400: no duration is sampled, the request is not delayed and
\* no "Slept for" body is produced.
C15_NonPositiveTotalRejected ==
  (impl = "go" /\ TotalNonPositive /\ resp.st # "idle") =>
    /\ resp.st = "rejected" /\ resp.status = StatusBadRequest
    /\ resp.dur = -1 /\ resp.r = NoDraw /\ ~resp.slept

\* C15 witness: a distribution of two zero weights was rejected.
C15_Witness ==
  /\ impl = "go" /\ Len(req.pdf) = 2 /\ TotalNonPositive
  /\ req.pdf[1].prob = F32Zero /\ req.pdf[2].prob = F32Zero
  /\ resp.st = "rejected"

\* ---- C16 ----------------------------------------------------------------
\* C16 (as claimed): every distribution the sampler draws from has all its
\* weights non-negative: a request with a negative weight is never sampled.
C16_NoNegativeWeightSampled ==
  Sampled => \A i \in DOMAIN req.pdf : ~(req.pdf[i].prob.k = "fin" /\ req.pdf[i].prob.v < 0)

\* ---- C17 ----------------------------------------------------------------
\* C17: for one decorated response the draining check runs at most once over
\* any sequence of calls, the ReadFrom fallback included: once the first
\* interception has set the per-response flag it has run exactly once, and
\* no later call runs it again.
C17_CheckAtMostOnce ==
  Decorated => (checks <= 1 /\ (headerWritten <=> checks = 1))

\* C17 witness: a decorated response of several calls is finished; it began
\* with a ReadFrom that took the fallback and went on with a Write, and the
\* check ran once.
C17_Witness ==
  /\ Decorated /\ ~isReaderFrom /\ Len(script) = MaxCalls /\ callPc > Len(script)
  /\ script[1] = "ReadFrom" /\ script[2] = "Write" /\ checks = 1

\* ---- C18 ----------------------------------------------------------------
\* C18 (as claimed): once the drain deadline timer has fired, the drain loop
\* reads the live connection count no more: no poll step follows the firing.
C18_NoPollAfterDeadline ==
  [][(impl = "go" /\ shutdownTimerSt = "fired") => ~GoPollTick]_vars

\* ---- C19 ----------------------------------------------------------------
\* The shared phase flag the readiness handler and the decorator read.
PhaseFlag == IF impl = "go" THEN shutdownInitiated ELSE draining

\* C19 (as claimed): on the drain-enabled and on the drain-disabled path the
\* phase flag has been flipped to not-Running before the listener is told to
\* stop: the listener is never halted with the flag still Running.
C19_FlagFlippedBeforeHalt == listener = "closed" => PhaseFlag

\* ---- C20 ----------------------------------------------------------------
\* C20 (as claimed): for every sequence of WriteHeader, Write, ReadFrom and
\* Flush calls on a decorated response the draining check has run when the
\* underlying writer commits the headers, and a response whose first call is
\* a Flush made while Draining carries Connection: close.
C20_CheckBeforeCommit ==
  (Decorated /\ wroteHeader) =>
    /\ checks >= 1
    /\ (script[1] = "Flush" /\ commitPhase = "Draining") => sentConn = 1

\* ---- C21 ----------------------------------------------------------------
\* The Live Connection Count the drain loop reads: numConnections in the go
\* service, server.getConnections in the node service.
LiveCount == IF impl = "go" THEN numConnections ELSE getConnections

\* C21 (as claimed): when the drain loop ended the drain on a count of zero,
\* the count is still zero at the step that tells the listener to stop: no
\* connection was opened in between.
C21_ZeroAtHalt ==
  [][(listener = "open" /\ listener' = "closed" /\ closedBy' = "poll") => LiveCount = 0]_vars

\* ---- C22 ----------------------------------------------------------------
\* Every weight of the request's distribution is a non-negative number.
WeightsNonNegative ==
  \A i \in DOMAIN req.pdf : req.pdf[i].prob.k = "fin" /\ req.pdf[i].prob.v >= 0

\* C22 (as claimed): in weighted mode an entry of weight zero is never
\* selected: the sampled duration is that of an entry of positive weight,
\* for every draw r in [0, 1), r = 0 included.
C22_ZeroWeightNeverSelected ==
  (Sampled /\ WeightsNonNegative) =>
    \E i \in DOMAIN req.pdf : req.pdf[i].dur = resp.dur /\ req.pdf[i].prob.v > 0

====
